---- MODULE Spec2Model ----
(***************************************************************************)
(* Model of the proxy checker: the single probe (check_proxy) of the GUI   *)
(* checker (src/proxy_checker.py, requests + ThreadPoolExecutor) and of    *)
(* the CLI checker (src/proxy_checker_cli.py, aiohttp + asyncio.Semaphore),*)
(* the batch run (check_proxies_batch) of both, get_statistics and        *)
(* parse_proxies of both, the CSV export of the CLI, and the GUI window    *)
(* over several runs.                                                      *)
(*                                                                         *)
(* Strings are TLA+ strings.  The two non-ASCII literals of the source are *)
(* written as ASCII strings of the same number of characters.  Latencies   *)
(* are whole milliseconds.                                                 *)
(***************************************************************************)
EXTENDS Integers, Sequences, FiniteSets, TLC

VARIABLES
    variant,       \* "gui" (proxy_checker.py) or "cli" (proxy_checker_cli.py)
    proxies,       \* the input list of <<endpoint, protocol>> pairs
    concurrency,   \* the configured ceiling (max_workers / Semaphore value)
    timeout,       \* self.timeout, seconds
    phase,         \* where the batch call is
    submitted,     \* number of probes handed to the executor / gathered
    pc,            \* per input position: where that probe is
    outcome,       \* per input position: what the network did (once known)
    fut,           \* per input position: what check_proxy returned
    results,       \* self.results
    progress,      \* the progress_callback(current, total) calls made so far
                   \* (CLI: the "[current/total]" lines printed so far)
    stopped,       \* the external stop signal has been given
    resultsAtStop, \* self.results at the moment of the stop signal
    is_checking,   \* ProxyCheckerGUI.is_checking
    sem,           \* CLI: the value of the asyncio.Semaphore
    exit_code,     \* the CLI process's exit code, -1 while it runs
    reports,       \* the result lists statistics were computed from and shown
    p_in,          \* single-probe check: the input of the probe
    p_gui,         \* single-probe check: ProxyChecker.check_proxy's return
    p_cli,         \* single-probe check: ProxyCheckerCLI.check_proxy's return
    verbose,       \* CLI: args.verbose
    file_ok,       \* CLI: the input file can be opened and read
    st_gui,        \* statistics check: ProxyChecker.get_statistics' return
    st_cli,        \* statistics check: ProxyCheckerCLI.get_statistics' return
    runs,          \* GUI window: one record per start_check that began a run
    text,          \* parser check: the text given to parse_proxies
    parsed_gui,    \* parser check: ProxyCheckerGUI.parse_proxies' return
    parsed_cli,    \* parser check: proxy_checker_cli.parse_proxies' return
    csv_out,       \* export check: the text _export_csv wrote
    workq,         \* positions submitted and not yet started, oldest first
    uiq,           \* GUI window: callbacks given to root.after, oldest first
    tree           \* GUI window: the rows of result_tree

batchVars == <<variant, proxies, concurrency, timeout, phase, submitted, pc,
               outcome, fut, results, progress, stopped, resultsAtStop,
               is_checking, sem, exit_code, reports>>
probeVars == <<p_in, p_gui, p_cli>>
cfgVars == <<verbose, file_ok>>
statVars == <<st_gui, st_cli>>
parseVars == <<text, parsed_gui, parsed_cli>>
csvVars == <<csv_out>>
uiVars == <<uiq, tree>>
otherVars == <<cfgVars, statVars, runs, parseVars, csvVars, uiVars>>
auxVars == <<workq, otherVars>>
vars == <<batchVars, probeVars, auxVars>>

---------------------------------------------------------------------------
(* Bounds of the model                                                     *)

MaxN == 3          \* longest input list
MaxConc == 3       \* largest concurrency ceiling
MaxMsgLen == 58    \* longest exception message tried

(* Program constants                                                       *)

ErrLimit == 50     \* str(e)[:50]
ProgressEvery == 10 \* "elif current % 10 == 0"

---------------------------------------------------------------------------
(* Strings                                                                 *)

Min(a, b) == IF a < b THEN a ELSE b

Digits == <<"0", "1", "2", "3", "4", "5", "6", "7", "8", "9">>

RECURSIVE ToStr(_)
\* str() of a natural number, as the f-string formats response.status_code
ToStr(n) == IF n < 10 THEN Digits[n + 1]
            ELSE ToStr(n \div 10) \o Digits[(n % 10) + 1]

RECURSIVE Rep(_, _)
\* the string made of n copies of c
Rep(c, n) == IF n = 0 THEN "" ELSE c \o Rep(c, n - 1)

\* s[:n]
Truncate(s, n) == SubSeq(s, 1, Min(Len(s), n))

\* the 4-character literal of the timeout branch
TimeoutMsg == "TOUT"

\* the 6-character literal that the GUI puts before a ProxyError's text
ProxyErrPrefix == "PErr: "

HttpErr(code) == "HTTP " \o ToStr(code)

---------------------------------------------------------------------------
(* ProxyResult and check_proxy                                             *)

NoResult == [status |-> "none"]

\* what check_proxy would be if an exception left it
Raised == [status |-> "raised"]

ProxyResult(proxy, protocol, status, latency, error) ==
    [proxy |-> proxy, protocol |-> protocol, status |-> status,
     latency |-> latency, error |-> error]

(* What the network did for one probe: an HTTP response with a status code *)
(* after `elapsed` ms, or an exception of one of the classes the code      *)
(* tells apart: "timeout" (requests.exceptions.Timeout /                   *)
(* asyncio.TimeoutError), "proxy_error" (requests.exceptions.ProxyError;   *)
(* for aiohttp just another exception), "error" (any other Exception).     *)
(* `elapsed` is the wall-clock time in ms at which the response or the      *)
(* exception arrived, `msg` is str(e).                                     *)
Response(code, elapsed) ==
    [kind |-> "response", code |-> code, elapsed |-> elapsed, msg |-> ""]
Failure(kind, msg, elapsed) ==
    [kind |-> kind, code |-> 0, elapsed |-> elapsed, msg |-> msg]
NoOutcome == [kind |-> "none", code |-> 0, elapsed |-> 0, msg |-> ""]

\* GUI: the code after requests.get returned
GuiResponse(proxy, protocol, o) ==
    IF o.code = 200
    THEN ProxyResult(proxy, protocol, "success", o.elapsed, "")
    ELSE ProxyResult(proxy, protocol, "failed", o.elapsed, HttpErr(o.code))

\* a timeout branch that forgets to turn seconds into milliseconds
GuiTimeoutSeconds(proxy, protocol, tmo) ==
    ProxyResult(proxy, protocol, "timeout", tmo, TimeoutMsg)

\* GUI: except requests.exceptions.Timeout
GuiTimeout(proxy, protocol, tmo) ==
    ProxyResult(proxy, protocol, "timeout", tmo * 1000, TimeoutMsg)

\* GUI: except requests.exceptions.ProxyError
GuiProxyError(proxy, protocol, o) ==
    ProxyResult(proxy, protocol, "failed", 0,
                ProxyErrPrefix \o Truncate(o.msg, ErrLimit))

\* a check_proxy without its last except clause: the exception leaves it
GuiOtherErrorUncaught(proxy, protocol, o) == Raised

\* GUI: except Exception
GuiOtherError(proxy, protocol, o) ==
    ProxyResult(proxy, protocol, "failed", 0, Truncate(o.msg, ErrLimit))

\* ProxyChecker.check_proxy
CheckProxyGui(proxy, protocol, tmo, o) ==
    CASE o.kind = "response"    -> GuiResponse(proxy, protocol, o)
      [] o.kind = "timeout"     -> GuiTimeout(proxy, protocol, tmo)
      [] o.kind = "proxy_error" -> GuiProxyError(proxy, protocol, o)
      [] OTHER                  -> GuiOtherError(proxy, protocol, o)

\* CLI: the body of "async with session.get(test_url)" of the socks5 branch
CliSocksResponse(proxy, protocol, o) ==
    IF o.code = 200
    THEN ProxyResult(proxy, protocol, "success", o.elapsed, "")
    ELSE ProxyResult(proxy, protocol, "failed", o.elapsed, HttpErr(o.code))

\* a response check that takes every 2xx status for a success
CliHttpResponseAny2xx(proxy, protocol, o) ==
    IF o.code >= 200 /\ o.code < 300
    THEN ProxyResult(proxy, protocol, "success", o.elapsed, "")
    ELSE ProxyResult(proxy, protocol, "failed", o.elapsed, HttpErr(o.code))

\* CLI: the body of "async with session.get(test_url, proxy=proxy_url)"
CliHttpResponse(proxy, protocol, o) ==
    IF o.code = 200
    THEN ProxyResult(proxy, protocol, "success", o.elapsed, "")
    ELSE ProxyResult(proxy, protocol, "failed", o.elapsed, HttpErr(o.code))

\* CLI: except asyncio.TimeoutError
CliTimeout(proxy, protocol, tmo) ==
    ProxyResult(proxy, protocol, "timeout", tmo * 1000, TimeoutMsg)

\* CLI: except Exception
CliOtherError(proxy, protocol, o) ==
    ProxyResult(proxy, protocol, "failed", 0, o.msg)

\* ProxyCheckerCLI.check_proxy
CheckProxyCli(proxy, protocol, tmo, o) ==
    CASE o.kind = "response" ->
             IF protocol = "socks5"
             THEN CliSocksResponse(proxy, protocol, o)
             ELSE CliHttpResponse(proxy, protocol, o)
      [] o.kind = "timeout"  -> CliTimeout(proxy, protocol, tmo)
      [] OTHER               -> CliOtherError(proxy, protocol, o)

CheckProxy(v, proxy, protocol, tmo, o) ==
    IF v = "gui" THEN CheckProxyGui(proxy, protocol, tmo, o)
    ELSE CheckProxyCli(proxy, protocol, tmo, o)

---------------------------------------------------------------------------
(* The batch run: inputs                                                   *)

\* the pairs an input list is made of; a list repeats them in turn, so a
\* list of three or more holds the same pair twice
PairCycle == << <<"10.0.0.1:8080", "http">>, <<"u:p@10.0.0.2:1080", "socks5">> >>

PairAt(i) == PairCycle[((i - 1) % Len(PairCycle)) + 1]

InputLists == {[i \in 1 .. n |-> PairAt(i)] : n \in 0 .. MaxN}

\* -1 and 0 are the malformed ceilings
Concurrencies == (-1) .. MaxConc

\* timeout: int = 10
DefaultTimeout == 10

\* what the network may do to a probe of a batch
BatchOutcomes ==
    { Response(200, 120), Response(404, 80),
      Failure("timeout", "", 10007), Failure("error", "refused", 3) }

N == Len(proxies)
Idx == 1 .. N

Running == {i \in Idx : pc[i] = "running"}
RunningCount == Cardinality(Running)

\* all tasks that have not finished are cancelled: those waiting at the gate
\* never start, those in check_proxy get CancelledError
Cancelled(pcs) ==
    [i \in DOMAIN pcs |->
        CASE pcs[i] \in {"new", "queued"} -> "dropped"
          [] pcs[i] = "running"           -> "aborted"
          [] OTHER                        -> pcs[i]]

\* a collection that loses the result of a probe that timed out
AppendResultLossy(rs, r) == IF r.status = "timeout" THEN rs ELSE Append(rs, r)

\* a count taken before the append instead of after it
ProgressArgsBeforeAppend(rs, total) == <<Len(rs) - 1, total>>

\* "progress_callback(len(self.results), total)" in the GUI checker,
\* "current = len(self.results)" with "[{current}/{total}]" in the CLI
ProgressArgs(rs, total) == <<Len(rs), total>>

\* an append that races with the one before it and takes its place
AppendResultRacing(rs, r) ==
    IF Len(rs) >= 2 THEN [rs EXCEPT ![Len(rs)] = r] ELSE Append(rs, r)

\* self.results.append(result)
AppendResult(rs, r) == Append(rs, r)

---------------------------------------------------------------------------
(* The batch run of the GUI: ProxyChecker.check_proxies_batch on a         *)
(* ThreadPoolExecutor, started by start_check / run_check                  *)

\* ThreadPoolExecutor(max_workers=concurrency) raises ValueError
ExecutorRejects(c) == c <= 0

\* a queue that hands out the newest entry first
EnqueueFront(q, i) == <<i>> \o q

\* executor.submit puts the work item at the end of the executor's queue;
\* a task that finds the semaphore locked is put at the end of its waiters,
\* one that finds it free passes at once
Enqueue(q, i) == Append(q, i)

\* the entry that is taken next: the oldest one
IsNext(q, i) == q # <<>> /\ Head(q) = i

Dequeue(q) == Tail(q)

\* a worker thread is idle or may still be spawned
WorkerAvailable(running, c) == running < c

\* start_check, run_check and the head of check_proxies_batch; one run per
\* behaviour: a second start_check is not part of this specification
GuiStartCheck ==
    /\ variant = "gui"
    /\ phase = "idle"
    /\ N > 0
    /\ is_checking' = TRUE
    /\ results' = <<>>
    /\ phase' = IF ExecutorRejects(concurrency) THEN "raised" ELSE "submitting"
    /\ UNCHANGED <<variant, proxies, concurrency, timeout, submitted, pc,
                   outcome, fut, progress, stopped, resultsAtStop, sem,
                   exit_code, reports, probeVars, auxVars>>

\* executor.submit(self.check_proxy, proxy, protocol), in input order
GuiSubmit ==
    /\ variant = "gui"
    /\ phase = "submitting"
    /\ submitted < N
    /\ submitted' = submitted + 1
    /\ pc' = [pc EXCEPT ![submitted + 1] = "queued"]
    /\ workq' = Enqueue(workq, submitted + 1)
    /\ phase' = IF submitted + 1 = N THEN "collecting" ELSE phase
    /\ UNCHANGED <<variant, proxies, concurrency, timeout, outcome, fut,
                   results, progress, stopped, resultsAtStop, is_checking,
                   sem, exit_code, reports, probeVars, otherVars>>

\* a worker thread takes the oldest work item of the executor's queue and
\* calls check_proxy
WorkerStart(i) ==
    /\ variant = "gui"
    /\ pc[i] = "queued"
    /\ IsNext(workq, i)
    /\ WorkerAvailable(RunningCount, concurrency)
    /\ pc' = [pc EXCEPT ![i] = "running"]
    /\ workq' = Dequeue(workq)
    /\ UNCHANGED <<variant, proxies, concurrency, timeout, phase, submitted,
                   outcome, fut, results, progress, stopped, resultsAtStop,
                   is_checking, sem, exit_code, reports, probeVars,
                   otherVars>>

\* check_proxy returns in the worker thread; the future is done
WorkerFinish(i, o) ==
    /\ variant = "gui"
    /\ pc[i] = "running"
    /\ outcome' = [outcome EXCEPT ![i] = o]
    /\ fut' = [fut EXCEPT ![i] =
                  CheckProxyGui(proxies[i][1], proxies[i][2], timeout, o)]
    /\ pc' = [pc EXCEPT ![i] = "finished"]
    /\ UNCHANGED <<variant, proxies, concurrency, timeout, phase, submitted,
                   results, progress, stopped, resultsAtStop, is_checking,
                   sem, exit_code, reports, probeVars, auxVars>>

\* one turn of "for future in as_completed(future_to_proxy)"
GuiCollect(i) ==
    /\ variant = "gui"
    /\ phase = "collecting"
    /\ pc[i] = "finished"
    /\ IF fut[i] = Raised
       THEN \* future.result() raises out of check_proxies_batch
            /\ phase' = "raised"
            /\ UNCHANGED <<pc, results, progress>>
       ELSE /\ results' = AppendResult(results, fut[i])
            /\ progress' = Append(progress, ProgressArgs(results', N))
            /\ pc' = [pc EXCEPT ![i] = "done"]
            /\ UNCHANGED phase
    /\ UNCHANGED <<variant, proxies, concurrency, timeout, submitted, outcome,
                   fut, stopped, resultsAtStop, is_checking, sem, exit_code,
                   reports, probeVars, auxVars>>

\* as_completed is exhausted, the executor is shut down, return self.results
GuiReturn ==
    /\ variant = "gui"
    /\ phase = "collecting"
    /\ \A i \in Idx : pc[i] = "done"
    /\ phase' = "returned"
    /\ UNCHANGED <<variant, proxies, concurrency, timeout, submitted, pc,
                   outcome, fut, results, progress, stopped, resultsAtStop,
                   is_checking, sem, exit_code, reports, probeVars, auxVars>>

\* run_check's finally: check_complete on the UI thread
GuiCheckComplete ==
    /\ variant = "gui"
    /\ phase \in {"returned", "raised"}
    /\ is_checking' = FALSE
    /\ reports' = IF results # <<>> THEN Append(reports, results) ELSE reports
    /\ phase' = IF phase = "returned" THEN "reported" ELSE "crashed"
    /\ UNCHANGED <<variant, proxies, concurrency, timeout, submitted, pc,
                   outcome, fut, results, progress, stopped, resultsAtStop,
                   sem, exit_code, probeVars, auxVars>>

\* stop_check: the stop button, enabled while is_checking
GuiStopCheck ==
    /\ variant = "gui"
    /\ is_checking
    /\ is_checking' = FALSE
    /\ stopped' = TRUE
    /\ resultsAtStop' = results
    /\ UNCHANGED <<variant, proxies, concurrency, timeout, phase, submitted,
                   pc, outcome, fut, results, progress, sem, exit_code,
                   reports, probeVars, auxVars>>

---------------------------------------------------------------------------
(* The batch run of the CLI: main and ProxyCheckerCLI.check_proxies_batch  *)
(* on asyncio tasks gated by asyncio.Semaphore(self.concurrency)           *)

\* asyncio.Semaphore(value) raises ValueError
SemaphoreRejects(c) == c < 0

\* a gate that lets one probe too many through
SemLockedLate(s) == s < 0

\* Semaphore.locked(): no slot to take
SemLocked(s) == s <= 0

\* Semaphore.acquire, once it is let through
\* an acquire that takes no slot
SemAcquireFree(s) == s

SemAcquire(s) == s - 1

\* a release that gives no slot back
SemReleaseLost(s) == s

\* Semaphore.release, on leaving "async with semaphore"
SemRelease(s) == s + 1

\* an interrupt that is swallowed: main goes on to its normal end
ExitStatusInterruptSwallowed(ph) ==
    IF ph \in {"unreadable", "noinput", "raised"} THEN 1 ELSE 0

\* the exit status of the process for the way main ended: sys.exit(1)
\* after a failed read, an empty list and KeyboardInterrupt, status 1 of
\* the interpreter for an uncaught exception, 0 when main returns
ExitStatus(ph) ==
    IF ph \in {"unreadable", "noinput", "interrupted", "raised"} THEN 1 ELSE 0

\* "tasks = [check_with_semaphore(i, proxy, protocol) for i, (proxy,
\* protocol) in enumerate(proxies)]" and gather: the tasks reach
\* "async with semaphore" in the order of the list
RECURSIVE TaskOrder(_)
TaskOrder(n) == IF n = 0 THEN <<>> ELSE Enqueue(TaskOrder(n - 1), n)

\* main up to asyncio.run, and the head of check_proxies_batch: the
\* semaphore is built and one task per pair is gathered, in input order
CliStart ==
    /\ variant = "cli"
    /\ phase = "idle"
    /\ IF ~file_ok
       THEN \* "except Exception as e: ... sys.exit(1)" around the read
            /\ phase' = "unreadable"
            /\ exit_code' = ExitStatus(phase')
            /\ UNCHANGED <<results, sem, submitted, pc, workq>>
       ELSE IF N = 0
       THEN \* "if not proxies: sys.exit(1)"
            /\ phase' = "noinput"
            /\ exit_code' = ExitStatus(phase')
            /\ UNCHANGED <<results, sem, submitted, pc, workq>>
       ELSE /\ results' = <<>>
            /\ IF SemaphoreRejects(concurrency)
               THEN \* the ValueError leaves asyncio.run and main
                    /\ phase' = "raised"
                    /\ exit_code' = ExitStatus(phase')
                    /\ UNCHANGED <<sem, submitted, pc, workq>>
               ELSE /\ sem' = concurrency
                    /\ submitted' = N
                    /\ pc' = [i \in Idx |-> "queued"]
                    /\ workq' = TaskOrder(N)
                    /\ phase' = "running"
                    /\ UNCHANGED exit_code
    /\ UNCHANGED <<variant, proxies, concurrency, timeout, outcome, fut,
                   progress, stopped, resultsAtStop, is_checking, reports,
                   probeVars, otherVars>>

\* a task is between the return of its check_proxy call and the end of
\* "async with": it runs without suspending, so no other task takes a step
LoopBusy == \E j \in Idx : pc[j] = "finished"

\* "async with semaphore" lets task i through, the first of the tasks
\* that have not passed yet; check_proxy starts
CliAcquire(i) ==
    /\ variant = "cli"
    /\ phase = "running"
    /\ ~LoopBusy
    /\ pc[i] = "queued"
    /\ IsNext(workq, i)
    /\ ~SemLocked(sem)
    /\ sem' = SemAcquire(sem)
    /\ pc' = [pc EXCEPT ![i] = "running"]
    /\ workq' = Dequeue(workq)
    /\ UNCHANGED <<variant, proxies, concurrency, timeout, phase, submitted,
                   outcome, fut, results, progress, stopped, resultsAtStop,
                   is_checking, exit_code, reports, probeVars, otherVars>>

\* the real-time output of check_with_semaphore: does the line printed
\* for this completion carry "[current/total]"?  A success always prints
\* it; any other result prints only its error text when verbose, and the
\* progress line at every ProgressEvery-th completion when not
CliPrintsCount(v, status, current) ==
    IF v \/ status = "success"
    THEN status = "success"
    ELSE current % ProgressEvery = 0

\* "result = await self.check_proxy(proxy, protocol)": the call returns in
\* task i, which is still inside "async with semaphore"
CliProbeReturns(i, o) ==
    /\ variant = "cli"
    /\ phase = "running"
    /\ ~LoopBusy
    /\ pc[i] = "running"
    /\ outcome' = [outcome EXCEPT ![i] = o]
    /\ fut' = [fut EXCEPT ![i] =
                  CheckProxyCli(proxies[i][1], proxies[i][2], timeout, o)]
    /\ pc' = [pc EXCEPT ![i] = "finished"]
    /\ UNCHANGED <<variant, proxies, concurrency, timeout, phase, submitted,
                   results, progress, stopped, resultsAtStop, is_checking,
                   sem, exit_code, reports, probeVars, auxVars>>

\* the rest of check_with_semaphore in task i, which runs without
\* suspending: append, output, leave "async with"
CliComplete(i) ==
    /\ variant = "cli"
    /\ phase = "running"
    /\ pc[i] = "finished"
    /\ sem' = SemRelease(sem)
    /\ IF fut[i] = Raised
       THEN \* gather hands the exception to asyncio.run, which cancels
            \* the other tasks; main does not catch it
            /\ pc' = Cancelled([pc EXCEPT ![i] = "done"])
            /\ phase' = "raised"
            /\ exit_code' = ExitStatus(phase')
            /\ UNCHANGED <<results, progress>>
       ELSE /\ results' = AppendResult(results, fut[i])
            /\ progress' =
                  IF CliPrintsCount(verbose, fut[i].status, Len(results'))
                  THEN Append(progress, ProgressArgs(results', N))
                  ELSE progress
            /\ pc' = [pc EXCEPT ![i] = "done"]
            /\ UNCHANGED <<phase, exit_code>>
    /\ UNCHANGED <<variant, proxies, concurrency, timeout, submitted,
                   outcome, fut, stopped, resultsAtStop, is_checking,
                   reports, probeVars, auxVars>>

\* asyncio.gather is done: return self.results
CliReturn ==
    /\ variant = "cli"
    /\ phase = "running"
    /\ \A i \in Idx : pc[i] = "done"
    /\ phase' = "returned"
    /\ UNCHANGED <<variant, proxies, concurrency, timeout, submitted, pc,
                   outcome, fut, results, progress, stopped, resultsAtStop,
                   is_checking, sem, exit_code, reports, probeVars, auxVars>>

\* main after asyncio.run: print_statistics (and export), exit 0
CliReport ==
    /\ variant = "cli"
    /\ phase = "returned"
    /\ reports' = IF results # <<>> THEN Append(reports, results) ELSE reports
    /\ phase' = "reported"
    /\ exit_code' = ExitStatus(phase')
    /\ UNCHANGED <<variant, proxies, concurrency, timeout, submitted, pc,
                   outcome, fut, results, progress, stopped, resultsAtStop,
                   is_checking, sem, probeVars, auxVars>>

\* KeyboardInterrupt during asyncio.run: the run's tasks are cancelled,
\* main prints and calls sys.exit(1)
CliInterrupt ==
    /\ variant = "cli"
    /\ phase = "running"
    /\ stopped' = TRUE
    /\ resultsAtStop' = results
    /\ pc' = Cancelled(pc)
    /\ phase' = "interrupted"
    /\ exit_code' = ExitStatus(phase')
    /\ UNCHANGED <<variant, proxies, concurrency, timeout, submitted,
                   outcome, fut, results, progress, is_checking, sem,
                   reports, probeVars, auxVars>>

---------------------------------------------------------------------------
(* The batch specification                                                 *)

\* get_statistics has not been called
NotComputed == [kind |-> "not_computed"]

CfgIdle == verbose = FALSE /\ file_ok = TRUE
StatsIdle == st_gui = NotComputed /\ st_cli = NotComputed
RunsIdle == runs = <<>>

\* parse_proxies has not been called
NotParsed == [done |-> FALSE, pairs |-> <<>>]
ParseIdle == text = "" /\ parsed_gui = NotParsed /\ parsed_cli = NotParsed

\* nothing has been exported
NotWritten == "not written"
CsvIdle == csv_out = NotWritten

\* the window before the first event: no callback pending, an empty table
UiIdle == uiq = <<>> /\ tree = <<>>

NoProbe == [proxy |-> "", protocol |-> "http", timeout |-> DefaultTimeout,
            o |-> NoOutcome]

Init ==
    /\ variant \in {"gui", "cli"}
    /\ proxies \in InputLists
    /\ concurrency \in Concurrencies
    /\ timeout = DefaultTimeout
    /\ phase = "idle"
    /\ submitted = 0
    /\ pc = [i \in 1 .. Len(proxies) |-> "new"]
    /\ outcome = [i \in 1 .. Len(proxies) |-> NoOutcome]
    /\ fut = [i \in 1 .. Len(proxies) |-> NoResult]
    /\ results = <<>>
    /\ progress = <<>>
    /\ stopped = FALSE
    /\ resultsAtStop = <<>>
    /\ is_checking = FALSE
    /\ sem = 0
    /\ exit_code = -1
    /\ reports = <<>>
    /\ p_in = NoProbe
    /\ p_gui = NoResult
    /\ p_cli = NoResult
    /\ verbose \in (IF variant = "cli" THEN BOOLEAN ELSE {FALSE})
    /\ file_ok \in (IF variant = "cli" /\ proxies = <<>>
                    THEN BOOLEAN ELSE {TRUE})
    /\ StatsIdle
    /\ RunsIdle
    /\ ParseIdle
    /\ CsvIdle
    /\ workq = <<>>
    /\ UiIdle

\* the steps the threads and tasks of a run take by themselves
Internal ==
    \/ GuiSubmit
    \/ \E i \in Idx : WorkerStart(i)
    \/ \E i \in Idx, o \in BatchOutcomes : WorkerFinish(i, o)
    \/ \E i \in Idx : GuiCollect(i)
    \/ GuiReturn
    \/ GuiCheckComplete
    \/ \E i \in Idx : CliAcquire(i)
    \/ \E i \in Idx, o \in BatchOutcomes : CliProbeReturns(i, o)
    \/ \E i \in Idx : CliComplete(i)
    \/ CliReturn
    \/ CliReport

\* the steps the user takes
External ==
    \/ GuiStartCheck
    \/ GuiStopCheck
    \/ CliStart
    \/ CliInterrupt

Next == Internal \/ External

Spec == Init /\ [][Next]_vars

\* The CLI alone, for what its batch run does in the end: every probe call
\* ends and the event loop lets every task that can take a step take it.
CliInternal ==
    \/ \E i \in Idx : CliAcquire(i)
    \/ \E i \in Idx, o \in BatchOutcomes : CliProbeReturns(i, o)
    \/ \E i \in Idx : CliComplete(i)
    \/ CliReturn
    \/ CliReport

CliNext == CliInternal \/ CliStart \/ CliInterrupt

CliInit == Init /\ variant = "cli"

FairSpecCli == CliInit /\ [][CliNext]_vars /\ WF_vars(CliInternal)

---------------------------------------------------------------------------
(* Claims about the batch run                                              *)

Count(sq, x) == Cardinality({k \in DOMAIN sq : sq[k] = x})

PairsOf(rs) == [k \in DOMAIN rs |-> <<rs[k].proxy, rs[k].protocol>>]

BatchReturned == phase \in {"returned", "reported"}

\* C1: when check_proxies_batch has returned, self.results holds exactly N
\* results, and every input pair has as many results as it has entries in
\* the input list, whatever the order the probes completed in.
C1_OneResultPerPair ==
    BatchReturned =>
        /\ Len(results) = N
        /\ \A k \in Idx : Count(PairsOf(results), proxies[k]) = Count(proxies, proxies[k])
        /\ \A k \in DOMAIN results :
               results[k].status \in {"success", "failed", "timeout"}

\* C1 witness: a batch of three returned with its results out of input order
C1_Witness ==
    /\ phase = "returned"
    /\ N >= 3
    /\ concurrency >= 2
    /\ <<results[1].proxy, results[1].protocol>> # proxies[1]

\* C2: at every moment of a batch run the number of check_proxy calls in
\* progress is at most the configured ceiling.
C2_InFlightBounded ==
    RunningCount <= IF concurrency > 0 THEN concurrency ELSE 0

\* C2 witness: the ceiling is reached while another probe waits at the gate
C2_Witness ==
    /\ concurrency >= 2
    /\ RunningCount = concurrency
    /\ \E i \in Idx : pc[i] = "queued"

NotStarted == {"new", "queued", "dropped"}

\* C3: once the stop signal has been given, a probe that has not passed the
\* concurrency gate is never started.
C3_NoStartAfterStop ==
    [][stopped => \A i \in Idx : pc[i] \in NotStarted => pc'[i] \in NotStarted]_vars

IsPrefix(a, b) == Len(a) <= Len(b) /\ SubSeq(b, 1, Len(a)) = a

\* C4: a probe in flight when the stop signal is given is not aborted, the
\* results appended before the signal stay in self.results, and once the run
\* is over they have been handed to the statistics.
C4_InFlightSurvivesStop ==
    stopped =>
        /\ \A i \in Idx : pc[i] # "aborted"
        /\ IsPrefix(resultsAtStop, results)
        /\ (phase \in {"reported", "interrupted"} /\ results # <<>>)
               => reports # <<>>

Started == {"running", "finished", "done"}

AtGate(i) == i \in Idx /\ pc[i] = "queued"
PastGate(i) == i \in Idx /\ pc[i] \in Started

BatchStarted == phase \notin {"idle", "noinput", "unreadable"}

\* C6: a batch run started with a ceiling of 0 or less ends with an error
\* raised to its caller: it never returns a result list, and as long as it
\* has not raised it is not stuck, with no thread or task able to take a
\* step (its probes waiting at the gate for ever).
C6_BadCeilingRaises ==
    (BatchStarted /\ concurrency <= 0) =>
        /\ ~BatchReturned
        /\ phase \in {"raised", "crashed"} \/ ENABLED Internal

IsFailure(o) == o.kind # "response" \/ o.code # 200

---------------------------------------------------------------------------
(* The single probe: check_proxy of both checkers on the same input        *)

Endpoints == {"10.0.0.1:8080", "u:p@10.0.0.2:1080"}
Protocols == {"http", "https", "socks5"}
TimeoutSecs == {2, DefaultTimeout}
StatusCodes == {200, 204, 301, 404, 500}
ElapsedMs == {0, 35, 2600}

\* str(e) of the exceptions tried: short, with a comma, and around the
\* 50-character limit
Messages ==
    {Rep("x", n) : n \in {1, 7, ErrLimit - 1, ErrLimit, ErrLimit + 1, MaxMsgLen}}
        \cup {"a,b"}

ProbeOutcomes ==
    {Response(c, e) : c \in StatusCodes, e \in ElapsedMs}
        \cup {Failure("timeout", "", e) : e \in {2001, 10004}}
        \cup {Failure(k, m, 12) : k \in {"proxy_error", "error"}, m \in Messages}

ProbeInit ==
    /\ p_in \in [proxy : Endpoints, protocol : Protocols,
                 timeout : TimeoutSecs, o : ProbeOutcomes]
    /\ p_gui = NoResult
    /\ p_cli = NoResult
    /\ variant = "gui"
    /\ proxies = <<>>
    /\ concurrency = 1
    /\ timeout = DefaultTimeout
    /\ phase = "idle"
    /\ submitted = 0
    /\ pc = <<>>
    /\ outcome = <<>>
    /\ fut = <<>>
    /\ results = <<>>
    /\ progress = <<>>
    /\ stopped = FALSE
    /\ resultsAtStop = <<>>
    /\ is_checking = FALSE
    /\ sem = 0
    /\ exit_code = -1
    /\ reports = <<>>
    /\ CfgIdle
    /\ StatsIdle
    /\ RunsIdle
    /\ ParseIdle
    /\ CsvIdle
    /\ workq = <<>>
    /\ UiIdle

\* ProxyChecker.check_proxy(proxy, protocol)
ProbeGui ==
    /\ p_gui = NoResult
    /\ p_gui' = CheckProxyGui(p_in.proxy, p_in.protocol, p_in.timeout, p_in.o)
    /\ UNCHANGED <<p_in, p_cli, batchVars, auxVars>>

\* ProxyCheckerCLI.check_proxy(proxy, protocol)
ProbeCli ==
    /\ p_cli = NoResult
    /\ p_cli' = CheckProxyCli(p_in.proxy, p_in.protocol, p_in.timeout, p_in.o)
    /\ UNCHANGED <<p_in, p_gui, batchVars, auxVars>>

ProbeNext == ProbeGui \/ ProbeCli

SpecProbe == ProbeInit /\ [][ProbeNext]_vars

---------------------------------------------------------------------------
(* Claims about the single probe                                           *)

\* the results check_proxy has returned so far for the input p_in
Probed == {r \in {p_gui, p_cli} : r # NoResult}

Got200 == p_in.o.kind = "response" /\ p_in.o.code = 200

\* C8: check_proxy gives every outcome exactly one of the three statuses:
\* success exactly for a response with status 200; failed, with error
\* "HTTP <status>" and the measured latency, for any other response;
\* timeout when the call timed out; failed for any other failure.  The
\* status does not depend on the protocol, and both checkers agree on it.
C8_Classification ==
    /\ \A r \in Probed :
           /\ r.status \in {"success", "failed", "timeout"}
           /\ r.status = "success" <=> Got200
           /\ (p_in.o.kind = "response" /\ p_in.o.code # 200) =>
                  /\ r.status = "failed"
                  /\ r.error = "HTTP " \o ToStr(p_in.o.code)
                  /\ r.latency = p_in.o.elapsed
           /\ Got200 => r.latency = p_in.o.elapsed
           /\ r.status = "timeout" <=> p_in.o.kind = "timeout"
           /\ p_in.o.kind \in {"proxy_error", "error"} => r.status = "failed"
           /\ r.proxy = p_in.proxy /\ r.protocol = p_in.protocol
    /\ (p_gui # NoResult /\ p_cli # NoResult) => p_gui.status = p_cli.status

\* C8 witness: a 404 through a socks5 proxy, probed by both checkers
C8_Witness ==
    /\ p_in.o.kind = "response" /\ p_in.o.code = 404
    /\ p_in.protocol = "socks5"
    /\ p_gui # NoResult /\ p_gui.error = "HTTP 404"
    /\ p_cli # NoResult /\ p_cli.status = "failed"

\* C9: a probe classified as timeout reports timeout * 1000 ms, whatever
\* time really passed, and a probe that failed without a response reports 0.
C9_Latency ==
    \A r \in Probed :
        /\ r.status = "timeout" => r.latency = p_in.timeout * 1000
        /\ (r.status = "failed" /\ p_in.o.kind # "response") => r.latency = 0

\* C9 witness: a 2-second timeout that really took 10004 ms is reported as
\* 2000 ms by both checkers
C9_Witness ==
    /\ p_in.timeout = 2
    /\ p_in.o.kind = "timeout" /\ p_in.o.elapsed = 10004
    /\ p_gui # NoResult /\ p_gui.latency = 2000
    /\ p_cli # NoResult /\ p_cli.latency = 2000

\* C10: every result of check_proxy, of either checker and on every path,
\* has an error of at most 50 characters, empty exactly on success.
C10_ErrorBounded ==
    \A r \in Probed :
        /\ Len(r.error) <= ErrLimit
        /\ r.error = "" <=> r.status = "success"

---------------------------------------------------------------------------
(* get_statistics.  Python's true division is modelled by exact fractions  *)
(* in lowest terms; the rounding of floating point is not modelled.        *)

MaxShort == 3      \* collections of up to this length are tried in any order
MaxResults == 10   \* longest result collection tried

RECURSIVE Gcd(_, _)
Gcd(a, b) == IF b = 0 THEN a ELSE Gcd(b, a % b)

\* a / b
Quot(a, b) == LET g == Gcd(a, b) IN [num |-> a \div g, den |-> b \div g]

TimesDropped(q, k) == q

\* q * k
Times(q, k) == Quot(q.num * k, q.den)
\* the integer n as a fraction
Whole(n) == [num |-> n, den |-> 1]
\* p <= q
Leq(p, q) == p.num * q.den <= q.num * p.den

IsSuccessOrTimeout(r) == r.status \in {"success", "timeout"}

\* "r.status == "success""
IsSuccess(r) == r.status = "success"

SuccessOfAll(rs) == rs

\* "[r for r in self.results if r.status == "success"]"
SuccessOf(rs) == SelectSeq(rs, IsSuccess)

\* "sum(r.latency for r in success)"
RECURSIVE SumLatency(_)
SumLatency(rs) ==
    IF rs = <<>> THEN 0 ELSE rs[1].latency + SumLatency(Tail(rs))

\* "min((r.latency for r in success), default=0)"
MinLatency(rs) ==
    IF rs = <<>> THEN 0
    ELSE CHOOSE m \in {rs[k].latency : k \in 1 .. Len(rs)} :
             \A k \in 1 .. Len(rs) : m <= rs[k].latency

\* "max((r.latency for r in success), default=0)"
MaxLatency(rs) ==
    IF rs = <<>> THEN 0
    ELSE CHOOSE m \in {rs[k].latency : k \in 1 .. Len(rs)} :
             \A k \in 1 .. Len(rs) : m >= rs[k].latency

\* the dict both get_statistics build for a collection that is not empty
StatsDict(rs) ==
    LET total == Len(rs)
        success == SuccessOf(rs)
        success_count == Len(success)
    IN  [kind |-> "stats",
         total |-> total,
         success |-> success_count,
         failed |-> total - success_count,
         success_rate |-> IF total > 0
                          THEN Times(Quot(success_count, total), 100)
                          ELSE Whole(0),
         avg_latency |-> IF success_count > 0
                         THEN Quot(SumLatency(success), success_count)
                         ELSE Whole(0),
         min_latency |-> MinLatency(success),
         max_latency |-> MaxLatency(success)]

\* "return {}"
EmptyDict == [kind |-> "empty_dict"]
\* "return None"
None == [kind |-> "none"]

GetStatisticsGuiZeros(rs) == StatsDict(rs)

\* ProxyChecker.get_statistics
GetStatisticsGui(rs) == IF rs = <<>> THEN EmptyDict ELSE StatsDict(rs)

\* ProxyCheckerCLI.get_statistics
GetStatisticsCli(rs) == IF rs = <<>> THEN None ELSE StatsDict(rs)

\* the results the two check_proxy produce for a fast and a slow success,
\* an HTTP error and a timeout
StatsOutcomes == {Response(200, 120), Response(200, 40), Response(404, 80),
                  Failure("timeout", "", 10007)}
StatsResults ==
    {CheckProxy(v, PairAt(1)[1], PairAt(1)[2], DefaultTimeout, o) :
        v \in {"gui", "cli"}, o \in StatsOutcomes}

RECURSIVE SeqsOfLen(_, _)
SeqsOfLen(S, n) ==
    IF n = 0 THEN {<<>>}
    ELSE {Append(q, x) : q \in SeqsOfLen(S, n - 1), x \in S}

\* s successes (fast and slow in turn), then f failures, then t timeouts
Mix(s, f, t) ==
    [i \in 1 .. (s + f + t) |->
        IF i <= s
        THEN CheckProxyCli(PairAt(i)[1], PairAt(i)[2], DefaultTimeout,
                           Response(200, 40 + 80 * (i % 2)))
        ELSE IF i <= s + f
        THEN CheckProxyCli(PairAt(i)[1], PairAt(i)[2], DefaultTimeout,
                           Response(404, 80))
        ELSE CheckProxyCli(PairAt(i)[1], PairAt(i)[2], DefaultTimeout,
                           Failure("timeout", "", 10007))]

StatsInputs ==
    UNION {SeqsOfLen(StatsResults, n) : n \in 0 .. MaxShort}
        \cup {Mix(s, f, t) : s \in 0 .. MaxResults, f \in 0 .. MaxResults,
                             t \in 0 .. 2}

\* every variable of the batch run and of the single probe at rest
BatchIdle ==
    /\ variant = "gui"
    /\ proxies = <<>>
    /\ timeout = DefaultTimeout
    /\ phase = "idle"
    /\ submitted = 0
    /\ pc = <<>>
    /\ outcome = <<>>
    /\ fut = <<>>
    /\ progress = <<>>
    /\ stopped = FALSE
    /\ resultsAtStop = <<>>
    /\ is_checking = FALSE
    /\ sem = 0
    /\ exit_code = -1
    /\ reports = <<>>
ProbeIdle == p_in = NoProbe /\ p_gui = NoResult /\ p_cli = NoResult

StatsInit ==
    /\ results \in {rs \in StatsInputs : Len(rs) <= MaxResults}
    /\ BatchIdle
    /\ concurrency = 1
    /\ ProbeIdle
    /\ CfgIdle
    /\ StatsIdle
    /\ RunsIdle
    /\ ParseIdle
    /\ CsvIdle
    /\ workq = <<>>
    /\ UiIdle

\* ProxyChecker.get_statistics() on self.results
StatsGui ==
    /\ st_gui = NotComputed
    /\ st_gui' = GetStatisticsGui(results)
    /\ UNCHANGED <<st_cli, batchVars, probeVars, cfgVars, runs, parseVars,
                   csvVars, workq, uiVars>>

\* ProxyCheckerCLI.get_statistics() on self.results
StatsCli ==
    /\ st_cli = NotComputed
    /\ st_cli' = GetStatisticsCli(results)
    /\ UNCHANGED <<st_gui, batchVars, probeVars, cfgVars, runs, parseVars,
                   csvVars, workq, uiVars>>

StatsNext == StatsGui \/ StatsCli

SpecStats == StatsInit /\ [][StatsNext]_vars

---------------------------------------------------------------------------
(* Claims about get_statistics, checked under SpecStats                    *)

\* what the two get_statistics returned, once they have been called
Computed == {st \in {st_gui, st_cli} : st # NotComputed}

IsZero(q) == q = Whole(0)

\* positions of the collection whose result has one of the given statuses
WithStatus(rs, S) == {k \in 1 .. Len(rs) : rs[k].status \in S}

CountsRight(st) ==
    /\ st.kind = "stats"
    /\ st.total = Len(results)
    /\ st.success = Cardinality(WithStatus(results, {"success"}))
    /\ st.failed = st.total - st.success
    /\ st.success + st.failed = st.total
    /\ st.failed = Cardinality(WithStatus(results, {"failed", "timeout"}))

C13_SuccessRate ==
    results # <<>> =>
        \A st \in Computed :
            LET n == Cardinality(WithStatus(results, {"success"}))
                rate == st.success_rate
            IN  /\ rate.den > 0
                /\ rate.num * Len(results) = 100 * n * rate.den
                /\ Leq(Whole(0), rate)
                /\ Leq(rate, Whole(100))
                /\ (n = 7 /\ Len(results) = 10) => rate = Whole(70)

C13_Witness ==
    /\ Len(results) = 10
    /\ Cardinality(WithStatus(results, {"success"})) = 7
    /\ st_gui # NotComputed
    /\ st_cli # NotComputed
    /\ st_gui.success_rate = Whole(70)
    /\ st_cli.success_rate = Whole(70)

\* the three latency figures of a statistics record
LatencyFigures(st) == <<st.avg_latency, st.min_latency, st.max_latency>>

\* the collection without its k-th result
Without(rs, k) == SubSeq(rs, 1, k - 1) \o SubSeq(rs, k + 1, Len(rs))

\* the collections one step away from rs by adding, removing or changing
\* a result that is not a success
NonSuccessVariants(rs) ==
    LET others == {r \in StatsResults : r.status # "success"}
        at == WithStatus(rs, {"failed", "timeout"})
    IN  {Append(rs, r) : r \in others}
            \cup {Without(rs, k) : k \in {j \in at : Len(rs) > 1}}
            \cup {[rs EXCEPT ![k] = r] : k \in at, r \in others}

---------------------------------------------------------------------------
(* Claims about the batch run, continued: checked under Spec               *)

\* what a result shows of its probe
Triple(r) == <<r.proxy, r.protocol, r.status>>

\* the result the probe of input position i gives for the outcome the
\* network had for it; neither the ceiling nor the order of completion
\* enters
ExpectedTriple(i) ==
    Triple(CheckProxy(variant, proxies[i][1], proxies[i][2], timeout,
                      outcome[i]))

\* C15: for a fixed input list and fixed outcomes of the probes, the
\* results of a returned batch, as (endpoint, protocol, status), are the
\* same collection for every ceiling and every interleaving of the probes:
\* each is determined by its input pair and that probe's outcome alone, and
\* only the order differs.
C15_ResultSetIndependentOfCeiling ==
    BatchReturned =>
        /\ concurrency >= 1
        /\ Len(results) = N
        /\ \A i \in Idx :
               Cardinality({k \in DOMAIN results :
                               Triple(results[k]) = ExpectedTriple(i)})
                   = Cardinality({j \in Idx :
                                     ExpectedTriple(j) = ExpectedTriple(i)})

\* C15 witness: a batch under the largest ceiling returned with results of
\* different statuses in an order that is not the input order
C15_Witness ==
    /\ BatchReturned
    /\ concurrency = MaxConc
    /\ N >= 3
    /\ results[1].proxy = proxies[2][1]
    /\ results[1].status # results[2].status
    /\ results[3].status = "timeout"

\* rs2 is rs1 with one more result at its end
IsAppend(rs1, rs2) ==
    /\ Len(rs2) = Len(rs1) + 1
    /\ SubSeq(rs2, 1, Len(rs1)) = rs1

\* one more progress report, made with the length the collection now has
\* and the size of the batch
ReportsNow ==
    progress' = Append(progress, <<Len(results'), N>>)

Exited == exit_code # -1

\* no check_proxy call was ever started
NoProbeStarted == results = <<>> /\ \A i \in Idx : pc[i] = "new"

---------------------------------------------------------------------------
(* The GUI window over several runs: start_check, stop_check and the       *)
(* threads run_check starts, all on the one ProxyChecker of the window     *)
(* (self.checker) and its one results attribute.                           *)

MaxRuns == 2       \* runs started in one session of the window
MaxRunLen == 2     \* longest input list of such a run

\* the lists start_check may read from the input box: the first pairs of
\* the pair cycle, or its second pair alone
RunInputs ==
    {[i \in 1 .. n |-> PairAt(i)] : n \in 1 .. MaxRunLen}
        \cup {<<PairAt(2)>>}
RunOutcomes == {Response(200, 120), Failure("timeout", "", 10007)}

\* a thread just started by start_check
NewRun(inp) ==
    [input |-> inp,
     phase |-> "started",
     pc |-> [i \in 1 .. Len(inp) |-> "new"],
     queue |-> <<>>,
     fut |-> [i \in 1 .. Len(inp) |-> NoResult],
     ret |-> <<>>,
     completes |-> 0,
     shown |-> NotComputed]

RunIds == 1 .. Len(runs)
RunIdx(r) == 1 .. Len(runs[r].input)
RunRunningCount(r) ==
    Cardinality({i \in RunIdx(r) : runs[r].pc[i] = "running"})

\* the callbacks handed to "self.root.after(0, ...)"
UpdateOf(r) == [cb |-> "update", run |-> r]
CompleteOf(r) == [cb |-> "complete", run |-> r]

\* what the run actions leave alone
singleRunVars == <<variant, proxies, concurrency, timeout, phase, submitted,
                   pc, outcome, fut, stopped, resultsAtStop, sem, exit_code,
                   probeVars, cfgVars, statVars, parseVars, csvVars, workq>>

\* ProxyCheckerGUI.start_check with a list that parses to pairs: the table
\* is emptied, is_checking is set, the Start button disabled and the Stop
\* button enabled, the thread of run_check started
RunStartCheck(inp) ==
    /\ ~is_checking
    /\ Len(runs) < MaxRuns
    /\ tree' = <<>>
    /\ is_checking' = TRUE
    /\ runs' = Append(runs, NewRun(inp))
    /\ UNCHANGED <<results, progress, reports, uiq, singleRunVars>>

\* the head of check_proxies_batch in the thread of run r:
\* "self.results = []", the executor, one future per pair in input order;
\* when the executor raises, run_check's "finally" hands check_complete to
\* the UI thread
RunBegin(r) ==
    /\ runs[r].phase = "started"
    /\ results' = <<>>
    /\ IF ExecutorRejects(concurrency)
       THEN /\ runs' = [runs EXCEPT ![r].phase = "raised"]
            /\ uiq' = Append(uiq, CompleteOf(r))
       ELSE /\ runs' = [runs EXCEPT
                           ![r].phase = "collecting",
                           ![r].pc = [i \in RunIdx(r) |-> "queued"],
                           ![r].queue = TaskOrder(Len(runs[r].input))]
            /\ UNCHANGED uiq
    /\ UNCHANGED <<is_checking, progress, reports, tree, singleRunVars>>

\* a worker of run r's executor takes the oldest work item, position i
RunWorkerStart(r, i) ==
    /\ runs[r].pc[i] = "queued"
    /\ IsNext(runs[r].queue, i)
    /\ WorkerAvailable(RunRunningCount(r), concurrency)
    /\ runs' = [runs EXCEPT ![r].pc[i] = "running",
                            ![r].queue = Dequeue(runs[r].queue)]
    /\ UNCHANGED <<results, is_checking, progress, reports, uiVars,
                   singleRunVars>>

\* check_proxy returns in that worker
RunWorkerFinish(r, i, o) ==
    /\ runs[r].pc[i] = "running"
    /\ runs' = [runs EXCEPT
                   ![r].pc[i] = "finished",
                   ![r].fut[i] = CheckProxyGui(runs[r].input[i][1],
                                               runs[r].input[i][2],
                                               timeout, o)]
    /\ UNCHANGED <<results, is_checking, progress, reports, uiVars,
                   singleRunVars>>

\* the as_completed loop of run r takes the future of position i:
\* "self.results.append(result)" on whatever list self.results is now,
\* then progress_callback, which is update_progress: it hands its inner
\* update() to the UI thread
RunCollect(r, i) ==
    /\ runs[r].phase = "collecting"
    /\ runs[r].pc[i] = "finished"
    /\ results' = AppendResult(results, runs[r].fut[i])
    /\ progress' = Append(progress,
                          ProgressArgs(results', Len(runs[r].input)))
    /\ uiq' = Append(uiq, UpdateOf(r))
    /\ runs' = [runs EXCEPT ![r].pc[i] = "done"]
    /\ UNCHANGED <<is_checking, reports, tree, singleRunVars>>

\* "return self.results" of run r, then run_check's "finally"
RunReturn(r) ==
    /\ runs[r].phase = "collecting"
    /\ \A i \in RunIdx(r) : runs[r].pc[i] = "done"
    /\ runs' = [runs EXCEPT ![r].phase = "returned", ![r].ret = results]
    /\ uiq' = Append(uiq, CompleteOf(r))
    /\ UNCHANGED <<results, is_checking, progress, reports, tree,
                   singleRunVars>>

\* the UI thread runs the oldest pending callback, an update() of
\* update_progress: "if self.checker.results: result =
\* self.checker.results[-1]; self.add_result_to_tree(result)"
RunUpdate(r) ==
    /\ uiq # <<>>
    /\ Head(uiq) = UpdateOf(r)
    /\ uiq' = Tail(uiq)
    /\ tree' = IF results # <<>>
               THEN Append(tree, results[Len(results)])
               ELSE tree
    /\ UNCHANGED <<results, is_checking, progress, reports, runs,
                   singleRunVars>>

\* the UI thread runs the oldest pending callback, the check_complete of
\* run r: is_checking is cleared, the Start button enabled and the Stop
\* button disabled, the statistics of self.checker shown
RunCheckComplete(r) ==
    /\ uiq # <<>>
    /\ Head(uiq) = CompleteOf(r)
    /\ uiq' = Tail(uiq)
    /\ is_checking' = FALSE
    /\ reports' = IF results # <<>> THEN Append(reports, results) ELSE reports
    /\ runs' = [runs EXCEPT ![r].completes = runs[r].completes + 1,
                            ![r].shown = GetStatisticsGui(results)]
    /\ UNCHANGED <<results, progress, tree, singleRunVars>>

\* stop_check: the Stop button is enabled from start_check to the next
\* check_complete or stop_check; is_checking is cleared, the Start button
\* enabled, and the thread is left to end by itself
RunStopCheck ==
    /\ is_checking
    /\ is_checking' = FALSE
    /\ UNCHANGED <<results, progress, reports, runs, uiVars, singleRunVars>>

\* concurrency_var of the window; 0 is a ceiling the executor refuses
RunsInit ==
    /\ results = <<>>
    /\ BatchIdle
    /\ concurrency \in 0 .. MaxRunLen
    /\ ProbeIdle
    /\ CfgIdle
    /\ StatsIdle
    /\ RunsIdle
    /\ ParseIdle
    /\ CsvIdle
    /\ workq = <<>>
    /\ UiIdle

RunsNext ==
    \/ \E inp \in RunInputs : RunStartCheck(inp)
    \/ RunStopCheck
    \/ \E r \in RunIds : RunBegin(r)
    \/ \E r \in RunIds : \E i \in RunIdx(r) : RunWorkerStart(r, i)
    \/ \E r \in RunIds : \E i \in RunIdx(r) : \E o \in RunOutcomes :
           RunWorkerFinish(r, i, o)
    \/ \E r \in RunIds : \E i \in RunIdx(r) : RunCollect(r, i)
    \/ \E r \in RunIds : RunReturn(r)
    \/ \E r \in RunIds : RunUpdate(r)
    \/ \E r \in RunIds : RunCheckComplete(r)

SpecGuiRuns == RunsInit /\ [][RunsNext]_vars

\* C16: every batch run starts from an empty results collection, and the
\* collection a run returns holds results of that run's own input pairs
\* only, one per pair, never a result of a probe of an earlier run on the
\* same checker.
C16_RunReturnsOwnResults ==
    \A r \in RunIds :
        runs[r].phase = "returned" =>
            /\ Len(runs[r].ret) = Len(runs[r].input)
            /\ \A k \in DOMAIN runs[r].ret :
                   \E i \in RunIdx(r) :
                       <<runs[r].ret[k].proxy, runs[r].ret[k].protocol>>
                           = runs[r].input[i]

---------------------------------------------------------------------------
(* parse_proxies of both programs                                          *)

MaxLines == 2      \* most lines of an input text

\* the i-th character of s
Ch(s, i) == SubSeq(s, i, i)

DigitChars == {"0", "1", "2", "3", "4", "5", "6", "7", "8", "9"}
\* the characters of [\d.]
IpChars == DigitChars \cup {"."}
\* the characters str.strip() removes that can occur in the texts tried
Whitespace == {" ", "\t", "\r", "\n"}

RECURSIVE LStrip(_)
LStrip(s) ==
    IF Len(s) > 0 /\ Ch(s, 1) \in Whitespace
    THEN LStrip(SubSeq(s, 2, Len(s))) ELSE s

RECURSIVE RStrip(_)
RStrip(s) ==
    IF Len(s) > 0 /\ Ch(s, Len(s)) \in Whitespace
    THEN RStrip(SubSeq(s, 1, Len(s) - 1)) ELSE s

\* s.strip()
Strip(s) == RStrip(LStrip(s))

\* the index of the first c in s, 0 if there is none
FirstIndex(s, c) ==
    LET at == {i \in 1 .. Len(s) : Ch(s, i) = c}
    IN  IF at = {} THEN 0 ELSE CHOOSE i \in at : \A j \in at : i <= j

\* s.split(sep) for a separator of one character
RECURSIVE Split(_, _)
Split(s, sep) ==
    LET i == FirstIndex(s, sep)
    IN  IF i = 0 THEN <<s>>
        ELSE <<SubSeq(s, 1, i - 1)>> \o Split(SubSeq(s, i + 1, Len(s)), sep)

\* s.startswith(p)
StartsWith(s, p) == Len(s) >= Len(p) /\ SubSeq(s, 1, Len(p)) = p

\* the number of characters of C in a row in s from position i on
RECURSIVE RunLen(_, _, _)
RunLen(s, i, C) ==
    IF i <= Len(s) /\ Ch(s, i) \in C THEN 1 + RunLen(s, i + 1, C) ELSE 0

\* re.match(r'[\d.]+:\d+', s) succeeds, with s read from position i on.
\* Nothing is asked of what follows the first digit of the port.
MatchIpPort(s, i) ==
    LET m == RunLen(s, i, IpChars)
    IN  /\ m >= 1
        /\ i + m + 1 <= Len(s)
        /\ Ch(s, i + m) = ":"
        /\ Ch(s, i + m + 1) \in DigitChars

\* re.match(r'[^@]+@[\d.]+:\d+', s) succeeds
MatchAuthIpPort(s) ==
    LET q == FirstIndex(s, "@")
    IN  q >= 2 /\ MatchIpPort(s, q + 1)

\* the alternatives of (http|https|socks5), in the order they are tried
Schemes == <<"http", "https", "socks5">>

\* the alternatives with which r'(http|https|socks5)://([^@]+@)?(.+)'
\* matches at the start of s: the scheme and "://" are there and at least
\* one character follows for (.+)
SchemeMatches(s) ==
    {k \in DOMAIN Schemes :
        /\ StartsWith(s, Schemes[k] \o "://")
        /\ Len(s) > Len(Schemes[k]) + 3}

\* the groups of that match: ([^@]+@)? takes the text up to and with the
\* first "@" if that leaves a character for (.+), and nothing otherwise
SchemeGroups(s) ==
    LET k == CHOOSE k \in SchemeMatches(s) :
                 \A j \in SchemeMatches(s) : k <= j
        rest == SubSeq(s, Len(Schemes[k]) + 4, Len(s))
        q == FirstIndex(rest, "@")
        taken == q >= 2 /\ q < Len(rest)
    IN  [protocol |-> Schemes[k],
         auth |-> IF taken THEN SubSeq(rest, 1, q) ELSE "",
         proxy |-> IF taken THEN SubSeq(rest, q + 1, Len(rest)) ELSE rest]

\* the body of the loop of parse_proxies for one line: the pairs it appends
ParseLine(raw) ==
    LET line == Strip(raw)
    IN  IF line = "" \/ StartsWith(line, "#") THEN <<>>
        ELSE IF SchemeMatches(line) # {}
        THEN LET g == SchemeGroups(line)
             IN  << <<g.auth \o g.proxy, g.protocol>> >>
        ELSE IF MatchAuthIpPort(line) THEN << <<line, "http">> >>
        ELSE IF MatchIpPort(line, 1) THEN << <<line, "http">> >>
        ELSE <<>>

RECURSIVE ParseLines(_)
ParseLines(lines) ==
    IF lines = <<>> THEN <<>>
    ELSE ParseLine(Head(lines)) \o ParseLines(Tail(lines))

\* ProxyCheckerGUI.parse_proxies(text)
ParseProxiesGui(t) == ParseLines(Split(Strip(t), "\n"))

\* parse_proxies(text) of proxy_checker_cli.py
ParseProxiesCli(t) == ParseLines(Split(Strip(t), "\n"))

\* lines a user may give: blank ones, a comment, the three forms, padded
\* with blanks, with another scheme, and with text that is no address
LineCandidates ==
    {"", "  ", "# c", "1.2.3.4:80", " 1.2.3.4:80\t", "u:p@1.2.3.4:80",
     "socks5://u:p@1.2.3.4:80", "https://h.io:443", "http://junk",
     "1.2.3.4:80junk", "ftp://1.2.3.4:80", "h.io:80", "junk"}

RECURSIVE JoinLines(_)
JoinLines(ls) ==
    IF ls = <<>> THEN ""
    ELSE IF Len(ls) = 1 THEN ls[1]
    ELSE ls[1] \o "\n" \o JoinLines(Tail(ls))

Texts ==
    {JoinLines(ls) :
        ls \in UNION {SeqsOfLen(LineCandidates, n) : n \in 0 .. MaxLines}}

ParseInit ==
    /\ text \in Texts
    /\ parsed_gui = NotParsed
    /\ parsed_cli = NotParsed
    /\ results = <<>>
    /\ BatchIdle
    /\ concurrency = 1
    /\ ProbeIdle
    /\ CfgIdle
    /\ StatsIdle
    /\ RunsIdle
    /\ CsvIdle
    /\ workq = <<>>
    /\ UiIdle

\* start_check reads the input box and calls self.parse_proxies
ParseGui ==
    /\ ~parsed_gui.done
    /\ parsed_gui' = [done |-> TRUE, pairs |-> ParseProxiesGui(text)]
    /\ UNCHANGED <<text, parsed_cli, results, batchVars, probeVars, cfgVars,
                   statVars, runs, csvVars, workq, uiVars>>

\* main reads the input file and calls parse_proxies
ParseCli ==
    /\ ~parsed_cli.done
    /\ parsed_cli' = [done |-> TRUE, pairs |-> ParseProxiesCli(text)]
    /\ UNCHANGED <<text, parsed_gui, results, batchVars, probeVars, cfgVars,
                   statVars, runs, csvVars, workq, uiVars>>

ParseNext == ParseGui \/ ParseCli

SpecParse == ParseInit /\ [][ParseNext]_vars

\* the grammar of the input text: host:port, a host without ":", "@", "/"
\* or blanks, then ":" and a port of digits up to the end
IsHostPort(s) ==
    LET c == FirstIndex(s, ":")
    IN  /\ c >= 2
        /\ c < Len(s)
        /\ \A i \in 1 .. (c - 1) : Ch(s, i) \notin {"@", "/", " ", "\t"}
        /\ \A i \in (c + 1) .. Len(s) : Ch(s, i) \in DigitChars

\* ip:port, the host made of digits and dots
IsIpPort(s) ==
    IsHostPort(s) /\ \A i \in 1 .. (FirstIndex(s, ":") - 1) : Ch(s, i) \in IpChars

\* user:pass@ followed by an address of the given kind
HasAuthThen(s, IsAddr(_)) ==
    LET q == FirstIndex(s, "@")
        c == FirstIndex(s, ":")
    IN  /\ q >= 4
        /\ c >= 2
        /\ c < q - 1
        /\ IsAddr(SubSeq(s, q + 1, Len(s)))

\* [user:pass@]host:port
IsEndpointForm(s) == IsHostPort(s) \/ HasAuthThen(s, IsHostPort)

\* the pairs the grammar gives for one line
ExpectedOfLine(raw) ==
    LET line == Strip(raw)
        withScheme == {k \in DOMAIN Schemes :
                          StartsWith(line, Schemes[k] \o "://")}
    IN  IF line = "" \/ StartsWith(line, "#") THEN <<>>
        ELSE IF withScheme # {}
        THEN LET k == CHOOSE k \in withScheme : TRUE
                 rest == SubSeq(line, Len(Schemes[k]) + 4, Len(line))
             IN  IF IsEndpointForm(rest)
                 THEN << <<rest, Schemes[k]>> >> ELSE <<>>
        ELSE IF IsIpPort(line) \/ HasAuthThen(line, IsIpPort)
        THEN << <<line, "http">> >>
        ELSE <<>>

RECURSIVE ExpectedOfLines(_)
ExpectedOfLines(lines) ==
    IF lines = <<>> THEN <<>>
    ELSE ExpectedOfLine(Head(lines)) \o ExpectedOfLines(Tail(lines))

Parsed == {p \in {parsed_gui, parsed_cli} : p.done}

\* C19: parse_proxies emits, in line order, at most one pair per line: none
\* for blank lines, lines starting with "#" and lines matching none of the
\* three forms; (rest, protocol) for protocol://[user:pass@]host:port; (line,
\* "http") for user:pass@ip:port and ip:port.  Every emitted endpoint has
\* the form [user:pass@]host:port, and the parsers of the GUI and of the CLI
\* return the same list for the same text.
C19_ParseFollowsGrammar ==
    /\ \A p \in Parsed :
           /\ p.pairs = ExpectedOfLines(Split(text, "\n"))
           /\ \A k \in DOMAIN p.pairs : IsEndpointForm(p.pairs[k][1])
    /\ (parsed_gui.done /\ parsed_cli.done) => parsed_gui = parsed_cli

---------------------------------------------------------------------------
(* export_results of the CLI with format "csv"                             *)

MaxRows == 2       \* most results of an exported collection

\* the header _export_csv writes; its five names are written here with
\* ASCII letters, each as long as in the source
CsvHeader == "PX,PR,ST,LT(ms),ERRM"

\* f"{latency:.2f}" for a latency of whole milliseconds
Fixed2(n) == ToStr(n) \o ".00"

\* f"{r.proxy},{r.protocol},{r.status},{r.latency:.2f},{r.error}\n" with
\* every field written as it is
CsvRow(r) ==
    r.proxy \o "," \o r.protocol \o "," \o r.status \o ","
        \o Fixed2(r.latency) \o "," \o r.error \o "\n"

RECURSIVE CsvRows(_)
CsvRows(rs) ==
    IF rs = <<>> THEN "" ELSE CsvRow(Head(rs)) \o CsvRows(Tail(rs))

\* ProxyCheckerCLI._export_csv
ExportCsv(rs) == CsvHeader \o "\n" \o CsvRows(rs)

\* what session.get may do, with exception texts that hold a comma or a
\* line break
CsvOutcomes ==
    {Response(200, 120), Response(200, 35), Response(404, 80),
     Failure("timeout", "", 10007), Failure("error", "refused", 3),
     Failure("error", "failed ('1.2.3.4', 80)", 3),
     Failure("error", "reset\nby peer", 3)}
CsvResults ==
    {CheckProxyCli(PairAt(1)[1], PairAt(1)[2], DefaultTimeout, o) :
        o \in CsvOutcomes}

CsvInit ==
    /\ results \in UNION {SeqsOfLen(CsvResults, n) : n \in 0 .. MaxRows}
    /\ csv_out = NotWritten
    /\ workq = <<>>
    /\ UiIdle
    /\ BatchIdle
    /\ concurrency = 1
    /\ ProbeIdle
    /\ CfgIdle
    /\ StatsIdle
    /\ RunsIdle
    /\ ParseIdle

\* export_results(output_file, "csv"): nothing is written without results
CsvExport ==
    /\ csv_out = NotWritten
    /\ results # <<>>
    /\ csv_out' = ExportCsv(results)
    /\ UNCHANGED <<results, batchVars, probeVars, cfgVars, statVars, runs,
                   parseVars, workq, uiVars>>

CsvNext == CsvExport

SpecCsv == CsvInit /\ [][CsvNext]_vars

\* the rows of a written text, read back by splitting on the row separator
\* (the text ends with one) and each row on the field separator
ReadCsv(t) ==
    LET ls == Split(t, "\n")
    IN  [k \in 1 .. (Len(ls) - 1) |-> Split(ls[k], ",")]

\* C20: the CSV export writes, after the header, exactly one data row per
\* result, with five fields; reading the output back by splitting on the
\* row and field separators gives as many rows as there are results and,
\* row by row, the endpoint, protocol, status and error of the result, also
\* when the error text holds commas or line breaks.
C20_CsvRoundTrip ==
    csv_out # NotWritten =>
        LET rows == ReadCsv(csv_out)
        IN  /\ Len(rows) = Len(results) + 1
            /\ rows[1] = Split(CsvHeader, ",")
            /\ \A k \in DOMAIN results :
                   /\ Len(rows[k + 1]) = 5
                   /\ rows[k + 1][1] = results[k].proxy
                   /\ rows[k + 1][2] = results[k].protocol
                   /\ rows[k + 1][3] = results[k].status
                   /\ rows[k + 1][5] = results[k].error

\* ---------------------------------------------------------------------
\* Slots of the concurrency gate (C21)

\* slots of the asyncio.Semaphore that are taken
SlotsHeld == concurrency - sem

\* tasks that are inside "async with semaphore"
InsideGate == {i \in Idx : pc[i] \in {"running", "finished"}}

\* every slot is free: no worker of the pool is in check_proxy, the
\* semaphore is back at its initial value
AllSlotsFree ==
    /\ RunningCount = 0
    /\ variant = "cli" => sem = concurrency

\* C21 as stated: a slot is held only while the check_proxy call of its
\* holder is in progress, so the slots held are as many as the calls in
\* progress, and when the batch has completed all slots are free
C21_SlotHeldOnlyDuringProbe ==
    /\ (variant = "cli" /\ phase = "running") => SlotsHeld = RunningCount
    /\ BatchReturned => AllSlotsFree

\* C21 amended: in the CLI a slot is held from the start of check_proxy until
\* the result is appended and the progress line printed; the slots held are as
\* many as the tasks inside "async with", at most one of them is past its
\* check_proxy call, and when the batch has completed all slots are free
C21_SlotHeldUntilRecorded ==
    /\ (variant = "cli" /\ phase = "running") =>
           /\ SlotsHeld = Cardinality(InsideGate)
           /\ Cardinality(InsideGate \ Running) <= 1
    /\ BatchReturned => AllSlotsFree

\* a CLI task holds its slot after its check_proxy call has returned, while
\* another call is still in progress
C21_Witness ==
    /\ variant = "cli"
    /\ phase = "running"
    /\ \E i, j \in Idx : pc[i] = "finished" /\ pc[j] = "running"
    /\ SlotsHeld = 2

\* ---------------------------------------------------------------------
\* Order of submission and admission (C22)

\* probe i has been let past the gate: its check_proxy call has begun
HasStarted(i) == pc[i] \in Started \cup {"aborted"}

SingleRunShown ==
    /\ Len(runs) = 1
    /\ runs[1].phase = "returned"
    /\ runs[1].completes = 1
    /\ uiq = <<>>

\* C23: after a batch of N pairs the result table holds exactly N rows, one
\* for each result of the run, none shown twice and none missing, whatever
\* the interleaving of the batch thread's appends with the UI thread's
\* update callbacks
C23_TableShowsEachResultOnce ==
    SingleRunShown =>
        /\ Len(tree) = Len(runs[1].input)
        /\ \A k \in DOMAIN results :
               Count(tree, results[k]) = Count(results, results[k])

\* the threads of run_check that have not left check_proxies_batch
ActiveRuns == {r \in RunIds : runs[r].phase \in {"started", "collecting"}}

\* C24: at most one batch run is active on the shared ProxyChecker: no
\* thread of run_check is started while an earlier one has not left
\* check_proxies_batch
C24_AtMostOneRunActive == Cardinality(ActiveRuns) <= 1

\* the results of the probes of run r
OwnResults(r) == IF runs[r].phase = "raised" THEN <<>> ELSE runs[r].fut

\* C25: check_complete runs at most once for a run, after the batch has
\* returned or raised and after all progress updates of that run; the
\* statistics it shows are those of all results of the run, and it leaves
\* the window idle
C25_CompleteOnceOverOwnResults ==
    [][\A r \in RunIds :
           runs'[r].completes # runs[r].completes =>
               /\ runs'[r].completes = 1
               /\ runs[r].phase \in {"returned", "raised"}
               /\ \A k \in DOMAIN uiq' : uiq'[k] # UpdateOf(r)
               /\ runs'[r].shown = GetStatisticsGui(OwnResults(r))
               /\ ~is_checking']_vars

====
